---- MODULE Spec2Model ----
(***************************************************************************)
(* AnyStream downloader: the four App components (src/unnamed/part_000,    *)
(* src/unnamed/part_001 and the two components of src/App.tsx) and the     *)
(* analyzeUrl services, as a state machine over the React state hooks and  *)
(* the callbacks (promises, intervals, timeouts) that are in flight.       *)
(*                                                                         *)
(* includes, trim and toLowerCase are computed on the characters of the    *)
(* strings.  A nullable value is a sequence of length at most one.         *)
(***************************************************************************)
EXTENDS Integers, Sequences, FiniteSets, TLC

\* ------------------------------------------------------------------ bounds
\* callbacks in flight at once (promises, intervals, timeouts), in all
MaxPending == 2
\* ticks of one interval on which Math.random() returns 0
MaxIdleTicks == 1
\* currentProgress is kept in units of 1/Scale
Scale == 2
\* fetchRealMedia's retryCount, which the "v7 api" branch raises without limit
MaxRetry == 3

\* ------------------------------------------------------------- null values
NULL == <<>>
Some(x) == <<x>>

\* ------------------------------------------------------------ string model
\* A string is the sequence of its characters: Len, SubSeq, Head, Tail and \o
\* apply, and Head(s) is the one-character string of the first character.
UpperCase == "ABCDEFGHIJKLMNOPQRSTUVWXYZ"
LowerCase == "abcdefghijklmnopqrstuvwxyz"

CharsOf(s) == {SubSeq(s, i, i) : i \in 1..Len(s)}

LowerCaseOf ==
  [c \in CharsOf(UpperCase) |->
     LET i == CHOOSE k \in 1..Len(UpperCase) : SubSeq(UpperCase, k, k) = c
     IN SubSeq(LowerCase, i, i)]

toLowerCaseChar(c) == IF c \in DOMAIN LowerCaseOf THEN LowerCaseOf[c] ELSE c

RECURSIVE toLowerCase(_)
toLowerCase(s) ==
  IF s = "" THEN "" ELSE toLowerCaseChar(Head(s)) \o toLowerCase(Tail(s))

includes(s, pat) ==
  \E i \in 1..(Len(s) - Len(pat) + 1) : SubSeq(s, i, i + Len(pat) - 1) = pat

WhiteSpace == {" ", "\t", "\n", "\r"}

trim(s) ==
  LET inked == {i \in 1..Len(s) : SubSeq(s, i, i) \notin WhiteSpace}
      first == CHOOSE i \in inked : \A j \in inked : i <= j
      last  == CHOOSE i \in inked : \A j \in inked : j <= i
  IN IF inked = {} THEN "" ELSE SubSeq(s, first, last)

\* ------------------------------------------------------------- url samples
EmptyUrl == ""
UrlYoutuBe == "youtu.be/a"
UrlYouTubeCom == "YouTube.com/w"
UrlTikTok == "tiktok.com/v"
UrlInstagram == "instagram.com/p"
UrlExample == "example.com/v"
UrlNearMiss == "youtube-com/w"
UrlBlank == " "
UrlPadded == " youtu.be/a "

\* ------------------------------------------------------------ DownloadStatus
IDLE == "IDLE"
ANALYZING == "ANALYZING"
READY == "READY"
DOWNLOADING == "DOWNLOADING"
COMPLETED == "COMPLETED"
ERROR == "ERROR"
DownloadStatus == {IDLE, ANALYZING, READY, DOWNLOADING, COMPLETED, ERROR}

\* ------------------------------------------------------------- App variants
Validating == "part_000"
Timer == "part_001"
Mirror == "App.tsx#1"
Cobalt == "App.tsx#2"
Variants == {Validating, Timer, Mirror, Cobalt}
TimerVariants == {Validating, Timer}
MirrorVariants == {Mirror, Cobalt}

VARIABLES
  variant,            \* which App component is mounted
  url, status, metadata, error, progress, activeDownloadId,
  mirrorIndex,        \* App.tsx#1, kept modulo MIRRORS.length
  isProxying,         \* App.tsx#2
  activeInstanceIndex,\* App.tsx#2, kept modulo COBALT_INSTANCES.length
  opened,             \* the argument of the last window.open(.., '_blank')
  analyses,           \* analyzeUrl promises in flight, oldest first
  pastes,             \* clipboard reads in flight (App.tsx#2)
  intervals,          \* running setInterval callbacks
  timers,             \* pending setTimeout callbacks, oldest first
  chains,             \* executeDownload / fetchRealMedia requests in flight
  service,            \* which analyzeUrl is called
  input,              \* the url analyzeUrl was called with
  stage,              \* the await the call is at
  calls,              \* the requests the call has made, oldest first
  outcome             \* how the call settled

vars == <<variant, url, status, metadata, error, progress, activeDownloadId,
          mirrorIndex, isProxying, activeInstanceIndex, opened,
          analyses, pastes, intervals, timers, chains,
          service, input, stage, calls, outcome>>

analyzer == <<service, input, stage, calls, outcome>>
hooks == <<url, status, metadata, error, progress, activeDownloadId>>
mirrorHooks == <<mirrorIndex, isProxying, activeInstanceIndex, opened>>
inFlight == <<analyses, pastes, intervals, timers, chains>>

\* ------------------------------------------------------------ input samples
\* what the user types into the input (onChange); part_000 inspects the url
TypedUrls(v) ==
  IF v = Validating
    THEN {EmptyUrl, UrlBlank, UrlYoutuBe, UrlYouTubeCom, UrlTikTok, UrlInstagram,
          UrlExample, UrlNearMiss}
    ELSE {EmptyUrl, UrlYoutuBe, UrlExample}

\* what navigator.clipboard.readText() resolves with
ClipboardTexts == {EmptyUrl, UrlBlank, UrlPadded}

\* messages of the Error an analyzeUrl call rejects with
RejectMessages == {"", "Analysis failed."}

\* JavaScript's a || b on strings
OrElse(a, b) == IF a # "" THEN a ELSE b

Remove(seq, i) == SubSeq(seq, 1, i - 1) \o SubSeq(seq, i + 1, Len(seq))

\* the callbacks in flight
Pending == Len(analyses) + pastes + Len(intervals) + Len(timers) + Len(chains)

\* --------------------------------------------------------------------- Init
\* no analyzeUrl call is followed
NoService == "none"
InitAnalyzerIdle ==
  /\ service = NoService
  /\ input = ""
  /\ stage = "idle"
  /\ calls = <<>>
  /\ outcome = NULL

\* the state hooks of a component after its first render
InitHooks ==
  /\ url = EmptyUrl
  /\ status = IDLE
  /\ metadata = NULL
  /\ error = NULL
  /\ progress = 0
  /\ activeDownloadId = NULL
  /\ mirrorIndex = 0
  /\ isProxying = FALSE
  /\ activeInstanceIndex = 0
  /\ opened = NULL
  /\ analyses = <<>>
  /\ pastes = 0
  /\ intervals = <<>>
  /\ timers = <<>>
  /\ chains = <<>>

Init ==
  /\ variant \in Variants
  /\ InitHooks
  /\ InitAnalyzerIdle

\* ------------------------------------------------------- the input element
\* onChange={(e) => setUrl(e.target.value)}
setUrl(u) ==
  /\ u # url
  /\ url' = u
  /\ UNCHANGED <<variant, analyzer, status, metadata, error, progress, activeDownloadId,
                 mirrorHooks, inFlight>>

\* ------------------------------------------------------------- validateUrl
socialPatterns == <<"youtube.com", "youtu.be", "tiktok.com", "instagram.com">>

\* sensitivity variant of validateUrl: the url is tested as typed
validateUrlAsTyped(testUrl) ==
  \E k \in DOMAIN socialPatterns : includes(testUrl, socialPatterns[k])

validateUrl(testUrl) ==
  \E k \in DOMAIN socialPatterns : includes(toLowerCase(testUrl), socialPatterns[k])

\* ------------------------------------------------- handleClear/handleReset
\* part_000: the X button shows when url is non-empty
handleClearP0 ==
  /\ variant = Validating
  /\ url # EmptyUrl
  /\ url' = EmptyUrl
  /\ error' = NULL
  /\ metadata' = NULL
  /\ status' = IDLE
  /\ progress' = 0
  /\ activeDownloadId' = NULL
  /\ UNCHANGED <<variant, analyzer, mirrorHooks, inFlight>>

\* part_001: the X button, and a Clear button that is always enabled
handleClearP1 ==
  /\ variant = Timer
  /\ url' = EmptyUrl
  /\ error' = NULL
  /\ metadata' = NULL
  /\ status' = IDLE
  /\ progress' = 0
  /\ activeDownloadId' = NULL
  /\ UNCHANGED <<variant, analyzer, mirrorHooks, inFlight>>

\* App.tsx#1: the X button shows when url is non-empty
handleReset ==
  /\ variant = Mirror
  /\ url # EmptyUrl
  /\ url' = EmptyUrl
  /\ metadata' = NULL
  /\ status' = IDLE
  /\ error' = NULL
  /\ activeDownloadId' = NULL
  /\ progress' = 0
  /\ UNCHANGED <<variant, analyzer, mirrorHooks, inFlight>>

\* App.tsx#2: the X button only empties the input
clearUrlButton ==
  /\ variant = Cobalt
  /\ url # EmptyUrl
  /\ url' = EmptyUrl
  /\ UNCHANGED <<variant, analyzer, status, metadata, error, progress, activeDownloadId,
                 mirrorHooks, inFlight>>

\* App.tsx#2: "Reset System" in the error box
resetSystemButton ==
  /\ variant = Cobalt
  /\ error # NULL
  /\ status' = IDLE
  /\ error' = NULL
  /\ UNCHANGED <<variant, analyzer, url, metadata, progress, activeDownloadId,
                 mirrorHooks, inFlight>>

\* -------------------------------------------------------------- handlePaste
\* part_000, part_001 and App.tsx#1 set nothing before readText() settles and
\* read no state after it: click and settlement are one step.  A rejected
\* read only focuses the input.
\* part_000: readText() resolved with text
handlePasteP0(text) ==
  /\ variant = Validating
  /\ text # ""
  /\ url' = trim(text)
  /\ error' = NULL
  /\ metadata' = NULL
  /\ status' = IDLE
  /\ UNCHANGED <<variant, analyzer, progress, activeDownloadId, mirrorHooks, inFlight>>

\* part_001: as part_000, but the text is stored untrimmed
handlePasteP1(text) ==
  /\ variant = Timer
  /\ text # ""
  /\ url' = text
  /\ error' = NULL
  /\ metadata' = NULL
  /\ status' = IDLE
  /\ UNCHANGED <<variant, analyzer, progress, activeDownloadId, mirrorHooks, inFlight>>

\* App.tsx#1: only the url is set
handlePasteA1(text) ==
  /\ variant = Mirror
  /\ text # ""
  /\ url' = trim(text)
  /\ UNCHANGED <<variant, analyzer, status, metadata, error, progress, activeDownloadId,
                 mirrorHooks, inFlight>>

\* App.tsx#2: the click, up to `await readText()`: the error is cleared first
handlePasteA2 ==
  /\ variant = Cobalt
  /\ Pending < MaxPending
  /\ pastes' = pastes + 1
  /\ error' = NULL
  /\ UNCHANGED <<variant, analyzer, url, status, metadata, progress, activeDownloadId,
                 mirrorHooks, analyses, intervals, timers, chains>>

\* App.tsx#2: readText() resolved with text
handlePasteA2Resolved(text) ==
  /\ variant = Cobalt
  /\ pastes > 0
  /\ pastes' = pastes - 1
  /\ IF text # ""
       THEN /\ url' = trim(text)
            /\ metadata' = NULL
            /\ status' = IDLE
       ELSE UNCHANGED <<url, metadata, status>>
  /\ UNCHANGED <<variant, analyzer, error, progress, activeDownloadId, mirrorHooks,
                 analyses, intervals, timers, chains>>

\* App.tsx#2: readText() rejected
handlePasteA2Rejected ==
  /\ variant = Cobalt
  /\ pastes > 0
  /\ pastes' = pastes - 1
  /\ error' = Some("Clipboard access blocked. Please paste manually into the field.")
  /\ UNCHANGED <<variant, analyzer, url, status, metadata, progress, activeDownloadId,
                 mirrorHooks, analyses, intervals, timers, chains>>

\* ------------------------------------------- handleAnalyze / handleProcess
\* The analyze button is disabled while ANALYZING or when url is empty; the
\* Enter key in the input calls the handler without that check.
Triggers == {"button", "enter"}
CanTrigger(t) == t = "enter" \/ (status # ANALYZING /\ url # EmptyUrl)

\* the mirror lists, by host name
MIRRORS == <<"api.cobalt.tools", "cobalt.moe", "co.wuk.sh", "cobalt.v0lt.io">>
COBALT_INSTANCES == <<"co.wuk.sh", "cobalt.tools", "cobalt.moe">>

\* setMirrorIndex(prev => prev + 1): the index is only ever read modulo the
\* length of its list, and is kept modulo that length
Bump(prev, list) == (prev + 1) % Len(list)

\* list[index % list.length], for JavaScript's 0-based index
At(list, index) == list[(index % Len(list)) + 1]

\* the record analyzeUrl resolves with for url u
Data(u) == [of |-> u]

\* part_000: up to `await analyzeUrl(url)`
handleAnalyzeP0(t) ==
  /\ variant = Validating
  /\ CanTrigger(t)
  /\ trim(url) # ""
  /\ IF ~validateUrl(url)
       THEN /\ error' = Some("Please enter a valid YouTube, TikTok, or Instagram link.")
            /\ status' = ERROR
            /\ UNCHANGED <<metadata, progress, analyses>>
       ELSE /\ Pending < MaxPending
            /\ status' = ANALYZING
            /\ error' = NULL
            /\ metadata' = NULL
            /\ progress' = 0
            /\ analyses' = Append(analyses, url)
  /\ UNCHANGED <<variant, analyzer, url, activeDownloadId, mirrorHooks,
                 pastes, intervals, timers, chains>>

\* part_000: analyzeUrl resolved
handleAnalyzeP0Resolved(i) ==
  /\ variant = Validating
  /\ i \in DOMAIN analyses
  /\ analyses' = Remove(analyses, i)
  /\ metadata' = Some(Data(analyses[i]))
  /\ status' = READY
  /\ UNCHANGED <<variant, analyzer, url, error, progress, activeDownloadId, mirrorHooks,
                 pastes, intervals, timers, chains>>

\* part_000: analyzeUrl rejected with an Error whose message is msg
handleAnalyzeP0Rejected(i, msg) ==
  /\ variant = Validating
  /\ i \in DOMAIN analyses
  /\ analyses' = Remove(analyses, i)
  /\ error' = Some(OrElse(msg, "An unexpected error occurred while analyzing the link."))
  /\ status' = ERROR
  /\ UNCHANGED <<variant, analyzer, url, metadata, progress, activeDownloadId, mirrorHooks,
                 pastes, intervals, timers, chains>>

\* part_001: up to `await analyzeUrl(url)`
handleAnalyzeP1(t) ==
  /\ variant = Timer
  /\ CanTrigger(t)
  /\ trim(url) # ""
  /\ Pending < MaxPending
  /\ status' = ANALYZING
  /\ error' = NULL
  /\ metadata' = NULL
  /\ progress' = 0
  /\ analyses' = Append(analyses, url)
  /\ UNCHANGED <<variant, analyzer, url, activeDownloadId, mirrorHooks,
                 pastes, intervals, timers, chains>>

\* sensitivity variant of handleAnalyzeP1Resolved: the result is stored only
\* while status is still ANALYZING
handleAnalyzeP1ResolvedGuarded(i) ==
  /\ variant = Timer
  /\ i \in DOMAIN analyses
  /\ analyses' = Remove(analyses, i)
  /\ IF status = ANALYZING
       THEN /\ metadata' = Some(Data(analyses[i]))
            /\ status' = READY
       ELSE UNCHANGED <<metadata, status>>
  /\ UNCHANGED <<variant, analyzer, url, error, progress, activeDownloadId, mirrorHooks,
                 pastes, intervals, timers, chains>>

\* part_001: analyzeUrl resolved
handleAnalyzeP1Resolved(i) ==
  /\ variant = Timer
  /\ i \in DOMAIN analyses
  /\ analyses' = Remove(analyses, i)
  /\ metadata' = Some(Data(analyses[i]))
  /\ status' = READY
  /\ UNCHANGED <<variant, analyzer, url, error, progress, activeDownloadId, mirrorHooks,
                 pastes, intervals, timers, chains>>

handleAnalyzeP1Rejected(i, msg) ==
  /\ variant = Timer
  /\ i \in DOMAIN analyses
  /\ analyses' = Remove(analyses, i)
  /\ error' = Some(OrElse(msg, "Could not analyze link. Check the link or your API key settings."))
  /\ status' = ERROR
  /\ UNCHANGED <<variant, analyzer, url, metadata, progress, activeDownloadId, mirrorHooks,
                 pastes, intervals, timers, chains>>

\* App.tsx#1: up to `await analyzeUrl(url)`; metadata is kept.
\* bump: the call comes from "Try Another Server", shown with the error box,
\* after setMirrorIndex(prev => prev + 1)
handleProcessA1(t, bump) ==
  /\ variant = Mirror
  /\ IF bump THEN error # NULL ELSE CanTrigger(t)
  /\ mirrorIndex' = IF bump THEN Bump(mirrorIndex, MIRRORS) ELSE mirrorIndex
  /\ IF trim(url) # ""
       THEN /\ Pending < MaxPending
            /\ status' = ANALYZING
            /\ error' = NULL
            /\ analyses' = Append(analyses, url)
       ELSE /\ bump
            /\ UNCHANGED <<status, error, analyses>>
  /\ UNCHANGED <<variant, analyzer, url, metadata, progress, activeDownloadId,
                 isProxying, activeInstanceIndex, opened,
                 pastes, intervals, timers, chains>>

handleProcessA1Resolved(i) ==
  /\ variant = Mirror
  /\ i \in DOMAIN analyses
  /\ analyses' = Remove(analyses, i)
  /\ metadata' = Some(Data(analyses[i]))
  /\ status' = READY
  /\ UNCHANGED <<variant, analyzer, url, error, progress, activeDownloadId, mirrorHooks,
                 pastes, intervals, timers, chains>>

handleProcessA1Rejected(i) ==
  /\ variant = Mirror
  /\ i \in DOMAIN analyses
  /\ analyses' = Remove(analyses, i)
  /\ error' = Some("Unable to analyze this link. Please check if it is valid.")
  /\ status' = ERROR
  /\ UNCHANGED <<variant, analyzer, url, metadata, progress, activeDownloadId, mirrorHooks,
                 pastes, intervals, timers, chains>>

\* App.tsx#2: up to `await analyzeUrl(url)`.
\* bump: the call comes from "Force Switch Mirror", shown with the error box,
\* after setActiveInstanceIndex(prev => prev + 1)
handleProcessA2(t, bump) ==
  /\ variant = Cobalt
  /\ IF bump THEN error # NULL ELSE CanTrigger(t)
  /\ activeInstanceIndex' = IF bump THEN Bump(activeInstanceIndex, COBALT_INSTANCES)
                                      ELSE activeInstanceIndex
  /\ IF trim(url) # ""
       THEN /\ Pending < MaxPending
            /\ status' = ANALYZING
            /\ error' = NULL
            /\ metadata' = NULL
            /\ analyses' = Append(analyses, url)
       ELSE /\ bump
            /\ UNCHANGED <<status, error, metadata, analyses>>
  /\ UNCHANGED <<variant, analyzer, url, progress, activeDownloadId,
                 mirrorIndex, isProxying, opened,
                 pastes, intervals, timers, chains>>

handleProcessA2Resolved(i) ==
  /\ variant = Cobalt
  /\ i \in DOMAIN analyses
  /\ analyses' = Remove(analyses, i)
  /\ metadata' = Some(Data(analyses[i]))
  /\ status' = READY
  /\ UNCHANGED <<variant, analyzer, url, error, progress, activeDownloadId, mirrorHooks,
                 pastes, intervals, timers, chains>>

handleProcessA2Rejected(i) ==
  /\ variant = Cobalt
  /\ i \in DOMAIN analyses
  /\ analyses' = Remove(analyses, i)
  /\ error' = Some("System could not analyze this URL. Platform metadata rejected the handshake.")
  /\ status' = ERROR
  /\ UNCHANGED <<variant, analyzer, url, metadata, progress, activeDownloadId, mirrorHooks,
                 pastes, intervals, timers, chains>>


\* ------------------------------------------- startDownload, timer variants
\* one of the entries of MOCK_OPTIONS / DOWNLOAD_OPTIONS
OptionIds(v) ==
  CASE v = Validating -> {"4k"}
    [] v = Timer -> {"4k"}
    [] v = Mirror -> {"1080"}
    [] v = Cobalt -> {"1080"}

\* the option buttons show with the results card and are disabled while
\* DOWNLOADING
CanClickOption ==
  /\ metadata # NULL
  /\ status \in {READY, DOWNLOADING, COMPLETED}
  /\ status # DOWNLOADING

\* Math.random() * 15 (resp. 20) is any value of [0, 15) (resp. [0, 20)): the
\* samples are the two ends of the range, in units of 1/Scale
Full == 100 * Scale
RandomRange(v) == IF v = Validating THEN 15 * Scale ELSE 20 * Scale
RandomSteps(v) == {0, RandomRange(v) - 1}
floor(x) == x \div Scale

\* part_000
startDownloadP0(id) ==
  /\ variant = Validating
  /\ CanClickOption
  /\ Pending < MaxPending
  /\ status' = DOWNLOADING
  /\ activeDownloadId' = Some(id)
  /\ progress' = 0
  /\ intervals' = Append(intervals, [currentProgress |-> 0, idle |-> 0])
  /\ UNCHANGED <<variant, analyzer, url, metadata, error, mirrorHooks,
                 analyses, pastes, timers, chains>>

\* part_001
startDownloadP1(id) ==
  /\ variant = Timer
  /\ CanClickOption
  /\ Pending < MaxPending
  /\ status' = DOWNLOADING
  /\ activeDownloadId' = Some(id)
  /\ progress' = 0
  /\ intervals' = Append(intervals, [currentProgress |-> 0, idle |-> 0])
  /\ UNCHANGED <<variant, analyzer, url, metadata, error, mirrorHooks,
                 analyses, pastes, timers, chains>>

\* sensitivity variant of intervalCallback: currentProgress is not clamped
intervalCallbackUnclamped(i, r) ==
  /\ variant \in TimerVariants
  /\ i \in DOMAIN intervals
  /\ r = 0 => intervals[i].idle < MaxIdleTicks
  /\ LET sum == intervals[i].currentProgress + r
     IN /\ IF sum >= Full
             THEN /\ intervals' = Remove(intervals, i)
                  /\ status' = COMPLETED
                  /\ timers' = Append(timers, TRUE)
             ELSE /\ intervals' = [intervals EXCEPT ![i] =
                        [currentProgress |-> sum,
                         idle |-> IF r = 0 THEN @.idle + 1 ELSE @.idle]]
                  /\ UNCHANGED <<status, timers>>
        /\ progress' = floor(sum)
  /\ UNCHANGED <<variant, analyzer, url, metadata, error, activeDownloadId, mirrorHooks,
                 analyses, pastes, chains>>

\* one firing of the setInterval callback of interval i, Math.random() * 15
\* (resp. 20) being r / Scale.  idle counts the firings that added nothing.
intervalCallback(i, r) ==
  /\ variant \in TimerVariants
  /\ i \in DOMAIN intervals
  /\ r = 0 => intervals[i].idle < MaxIdleTicks
  /\ LET sum == intervals[i].currentProgress + r
         clamped == IF sum >= Full THEN Full ELSE sum
     IN /\ IF sum >= Full
             THEN /\ intervals' = Remove(intervals, i)
                  /\ status' = COMPLETED
                  /\ timers' = Append(timers, TRUE)
             ELSE /\ intervals' = [intervals EXCEPT ![i] =
                        [currentProgress |-> sum,
                         idle |-> IF r = 0 THEN @.idle + 1 ELSE @.idle]]
                  /\ UNCHANGED <<status, timers>>
        /\ progress' = floor(clamped)
  /\ UNCHANGED <<variant, analyzer, url, metadata, error, activeDownloadId, mirrorHooks,
                 analyses, pastes, chains>>

\* sensitivity variant of completedTimeout: the timer returns to IDLE
completedTimeoutIdle ==
  /\ variant \in TimerVariants
  /\ timers # <<>>
  /\ timers' = Tail(timers)
  /\ status' = IDLE
  /\ activeDownloadId' = NULL
  /\ UNCHANGED <<variant, analyzer, url, metadata, error, progress, mirrorHooks,
                 analyses, pastes, intervals, chains>>

\* the setTimeout callback scheduled on completion (2000 ms resp. 2500 ms)
completedTimeout ==
  /\ variant \in TimerVariants
  /\ timers # <<>>
  /\ timers' = Tail(timers)
  /\ status' = READY
  /\ activeDownloadId' = NULL
  /\ UNCHANGED <<variant, analyzer, url, metadata, error, progress, mirrorHooks,
                 analyses, pastes, intervals, chains>>

\* ------------------------------------------------------- mirror responses
\* What a POST to a mirror can come back with.  fetch: the request rejects
\* with a TypeError ("Failed to fetch"), or resolves with response.ok false or
\* true; json: response.json() rejects with a SyntaxError, or resolves with
\* null or with an object whose fields are the remaining fields of the record
\* (NULL: the field is missing).
Resp(fetch, json, st, u, stream, text, picker) ==
  [fetch |-> fetch, json |-> json, status |-> st, url |-> u, stream |-> stream,
   text |-> text, picker |-> picker]

FileUrl == "https://cdn.example/file.mp4"
StreamUrl == "https://cdn.example/stream"
TextV7 == "Please migrate: the V7 API is shut down"
TextBusy == "busy"

Body(st, u, stream, text, picker) == Resp("ok", "object", Some(st), u, stream, text, picker)
NoBody(fetch, json) == Resp(fetch, json, NULL, NULL, NULL, NULL, NULL)

Responses ==
  { NoBody("TypeError", "none"),
    NoBody("notOk", "none"),
    NoBody("ok", "SyntaxError"),
    NoBody("ok", "null"),
    NoBody("ok", "object"),
    Body("stream", Some(FileUrl), NULL, NULL, NULL),
    Body("redirect", NULL, Some(StreamUrl), NULL, NULL),
    Body("success", NULL, NULL, NULL, NULL),
    Body("success", Some(""), NULL, NULL, NULL),
    Body("error", NULL, NULL, Some(TextV7), NULL),
    Body("error", NULL, NULL, Some(TextBusy), NULL),
    Body("error", NULL, NULL, NULL, NULL),
    Body("picker", NULL, NULL, NULL, Some(<< [url |-> Some(FileUrl)] >>)),
    Body("picker", NULL, NULL, NULL, Some(<< [url |-> NULL] >>)),
    Body("picker", NULL, NULL, NULL, Some(<< >>)),
    Body("picker", NULL, NULL, NULL, NULL),
    Body("tunnel", Some(FileUrl), NULL, NULL, NULL) }

\* JavaScript truthiness of a nullable string
Truthy(x) == x # NULL /\ x[1] # ""

SuccessStatuses == {"stream", "redirect", "success"}

\* ------------------------------------------------- App.tsx#1 executeDownload
\* A chain is one startDownload with its retries; it has one request pending.
\* index and notError are mirrorIndex and status !== ERROR as the closure of
\* the render that handled the click holds them: executeDownload calls itself
\* through that same closure.  tried: the hosts the chain has posted to.
Chain(attempt, forceProxy, index, notError, tried) ==
  [attempt |-> attempt, forceProxy |-> forceProxy, index |-> index,
   notError |-> notError, tried |-> tried]

\* sensitivity variant of attemptsLeft: one more retry
attemptsLeftOneMore(attempt) == attempt < Len(MIRRORS) * 2 + 1

\* attempt < MIRRORS.length * 2
attemptsLeft(attempt) == attempt < Len(MIRRORS) * 2

\* the body of the try block from `await fetch` on, for one response:
\* "retry" (the !response.ok branch with attempts left), "open" (window.open
\* and COMPLETED) or "throw"
executeDownloadTry(resp, attempt) ==
  CASE resp.fetch = "TypeError" -> [kind |-> "throw", arg |-> NULL]
    [] resp.fetch = "notOk" ->
         IF attemptsLeft(attempt)
           THEN [kind |-> "retry", arg |-> NULL]
           ELSE [kind |-> "throw", arg |-> NULL]
    [] resp.json # "object" -> [kind |-> "throw", arg |-> NULL]
    [] resp.status # NULL /\ resp.status[1] \in SuccessStatuses ->
         LET downloadUrl == IF Truthy(resp.url) THEN resp.url ELSE resp.stream
         IN IF Truthy(downloadUrl)
              THEN [kind |-> "open", arg |-> downloadUrl]
              ELSE [kind |-> "throw", arg |-> NULL]
    [] resp.status = Some("picker") ->
         IF resp.picker = NULL \/ resp.picker = Some(<< >>)
           THEN [kind |-> "throw", arg |-> NULL]
           ELSE [kind |-> "open", arg |-> resp.picker[1][1].url]
    [] OTHER -> [kind |-> "throw", arg |-> NULL]

\* const activeMirror = MIRRORS[mirrorIndex % MIRRORS.length], mirrorIndex
\* being the closure's
activeMirror(c) == At(MIRRORS, c.index)

\* requestUrl is the proxied url: attempt % 2 === 0 ? activeMirror : proxy
viaCorsProxy(attempt) == attempt % 2 # 0

\* the chain's next executeDownload(option, attempt + 1), up to its await
executeDownloadRetry(c) ==
  Chain(c.attempt + 1, FALSE, c.index, c.notError,
        c.tried \cup {At(MIRRORS, c.index)})

startDownloadA1(id) ==
  /\ variant = Mirror
  /\ CanClickOption
  /\ Pending < MaxPending
  /\ activeDownloadId' = Some(id)
  /\ error' = NULL
  /\ status' = DOWNLOADING
  /\ progress' = 10
  /\ chains' = Append(chains, Chain(0, FALSE, mirrorIndex, status # ERROR,
                                    {At(MIRRORS, mirrorIndex)}))
  /\ UNCHANGED <<variant, analyzer, url, metadata, mirrorHooks,
                 analyses, pastes, intervals, timers>>

\* the request of chain i settles with resp: the rest of executeDownload,
\* its catch and its finally, and the synchronous part of the retry
executeDownload(i, resp) ==
  /\ variant = Mirror
  /\ i \in DOMAIN chains
  /\ LET c == chains[i]
         try == executeDownloadTry(resp, c.attempt)
         again == try.kind = "throw" /\ attemptsLeft(c.attempt)
     IN /\ timers' = Append(timers, c.notError)
        /\ CASE try.kind = "retry" ->
                  /\ Pending < MaxPending
                  /\ mirrorIndex' = IF c.attempt % 2 # 0
                                      THEN Bump(mirrorIndex, MIRRORS) ELSE mirrorIndex
                  /\ chains' = [chains EXCEPT ![i] = executeDownloadRetry(c)]
                  /\ status' = DOWNLOADING
                  /\ progress' = 10 + (c.attempt + 1) * 20
                  /\ UNCHANGED <<error, opened>>
             [] try.kind = "open" ->
                  /\ opened' = Some(try.arg)
                  /\ chains' = Remove(chains, i)
                  /\ status' = COMPLETED
                  /\ progress' = 100
                  /\ UNCHANGED <<error, mirrorIndex>>
             [] again ->
                  /\ Pending < MaxPending
                  /\ mirrorIndex' = Bump(mirrorIndex, MIRRORS)
                  /\ chains' = [chains EXCEPT ![i] = executeDownloadRetry(c)]
                  /\ status' = DOWNLOADING
                  /\ progress' = 10 + (c.attempt + 1) * 20
                  /\ UNCHANGED <<error, opened>>
             [] OTHER ->
                  /\ error' = Some("Connection failed. This service might be temporarily unavailable. Please try again later.")
                  /\ status' = ERROR
                  /\ chains' = Remove(chains, i)
                  /\ UNCHANGED <<progress, opened, mirrorIndex>>
  /\ UNCHANGED <<variant, analyzer, url, metadata, activeDownloadId,
                 isProxying, activeInstanceIndex, analyses, pastes, intervals>>

\* the setTimeout callback of a finally block (3000 ms)
executeDownloadTimeout ==
  /\ variant = Mirror
  /\ timers # <<>>
  /\ timers' = Tail(timers)
  /\ IF Head(timers)
       THEN /\ status' = READY
            /\ activeDownloadId' = NULL
       ELSE UNCHANGED <<status, activeDownloadId>>
  /\ UNCHANGED <<variant, analyzer, url, metadata, error, progress, mirrorHooks,
                 analyses, pastes, intervals, chains>>

NextMirror ==
  \/ \E u \in TypedUrls(variant) : setUrl(u)
  \/ handleReset
  \/ \E text \in ClipboardTexts : handlePasteA1(text)
  \/ \E t \in Triggers, bump \in BOOLEAN : handleProcessA1(t, bump)
  \/ \E i \in DOMAIN analyses : handleProcessA1Resolved(i)
  \/ \E i \in DOMAIN analyses : handleProcessA1Rejected(i)
  \/ \E id \in OptionIds(variant) : startDownloadA1(id)
  \/ \E i \in DOMAIN chains, resp \in Responses : executeDownload(i, resp)
  \/ executeDownloadTimeout

\* -------------------------------------------------- App.tsx#2 fetchRealMedia
V7Api == "v7 api"

\* retryCount < COBALT_INSTANCES.length - 1
retriesLeft(retryCount) == retryCount < Len(COBALT_INSTANCES) - 1

\* the body of the try block from `await fetch` on, for one response:
\* "retry" (the !response.ok branch with retries left), "v7" (the legacy
\* message branch), "open" (window.open and COMPLETED), or "throw" with the
\* thrown error's type and message.  parsed: response.json() resolved, so
\* setProgress(85) ran.
fetchRealMediaTry(resp, retryCount) ==
  LET out(kind, parsed, arg, type, message) ==
        [kind |-> kind, parsed |-> parsed, arg |-> arg, type |-> type,
         message |-> message]
  IN CASE resp.fetch = "TypeError" ->
            out("throw", FALSE, NULL, "TypeError", "Failed to fetch")
       [] resp.fetch = "notOk" ->
            IF retriesLeft(retryCount)
              THEN out("retry", FALSE, NULL, "", "")
              ELSE out("throw", FALSE, NULL, "Error", "Mirror Status Error: 502")
       [] resp.json = "SyntaxError" ->
            out("throw", FALSE, NULL, "SyntaxError", "Unexpected token < in JSON")
       [] resp.json = "null" ->
            out("throw", TRUE, NULL, "TypeError", "Cannot read properties of null")
       [] resp.status # NULL /\ resp.status[1] \in SuccessStatuses ->
            out("open", TRUE, resp.url, "", "")
       [] resp.status = Some("error") ->
            IF resp.text # NULL /\ includes(toLowerCase(resp.text[1]), V7Api)
              THEN out("v7", TRUE, NULL, "", "")
              ELSE out("throw", TRUE, NULL, "Error",
                       IF Truthy(resp.text) THEN resp.text[1]
                       ELSE "Handshake rejected by media engine.")
       [] resp.status = Some("picker") ->
            IF resp.picker = NULL \/ resp.picker = Some(<< >>)
              THEN out("throw", TRUE, NULL, "TypeError",
                       "Cannot read properties of undefined")
              ELSE out("open", TRUE, resp.picker[1][1].url, "", "")
       [] OTHER ->
            out("throw", TRUE, NULL, "Error", "Invalid protocol response from tunnel.")

\* const targetApi = COBALT_INSTANCES[activeInstanceIndex % ...length],
\* activeInstanceIndex being the closure's
targetApi(c) == At(COBALT_INSTANCES, c.index)

\* the chain's next fetchRealMedia(option, retryCount, forceProxy), up to its
\* await
fetchRealMediaRetry(c, retryCount, forceProxy) ==
  Chain(retryCount, forceProxy, c.index, c.notError,
        c.tried \cup {At(COBALT_INSTANCES, c.index)})

startDownloadA2(id) ==
  /\ variant = Cobalt
  /\ CanClickOption
  /\ Pending < MaxPending
  /\ activeDownloadId' = Some(id)
  /\ error' = NULL
  /\ status' = DOWNLOADING
  /\ progress' = 10
  /\ chains' = Append(chains, Chain(0, FALSE, activeInstanceIndex, status # ERROR,
                                    {At(COBALT_INSTANCES, activeInstanceIndex)}))
  /\ UNCHANGED <<variant, analyzer, url, metadata, mirrorHooks,
                 analyses, pastes, intervals, timers>>

\* the request of chain i settles with resp: the rest of fetchRealMedia, its
\* catch and its finally, and the synchronous part of the retry
fetchRealMedia(i, resp) ==
  /\ variant = Cobalt
  /\ i \in DOMAIN chains
  /\ LET c == chains[i]
         try == fetchRealMediaTry(resp, c.attempt)
         viaProxy == try.kind = "throw" /\ try.type = "TypeError" /\ ~c.forceProxy
         failover == try.kind = "throw" /\ ~viaProxy /\ retriesLeft(c.attempt)
         next(retryCount, forceProxy, bump) ==
           /\ Pending < MaxPending
           /\ activeInstanceIndex' =
                IF bump THEN Bump(activeInstanceIndex, COBALT_INSTANCES)
                ELSE activeInstanceIndex
           /\ chains' = [chains EXCEPT ![i] = fetchRealMediaRetry(c, retryCount, forceProxy)]
           /\ isProxying' = IF forceProxy THEN TRUE ELSE isProxying
           /\ status' = DOWNLOADING
           /\ progress' = 10 + retryCount * 20
           /\ UNCHANGED <<error, opened>>
     IN /\ timers' = Append(timers, c.notError)
        /\ CASE try.kind = "retry" -> next(c.attempt + 1, FALSE, TRUE)
             [] try.kind = "v7" ->
                  /\ c.attempt < MaxRetry
                  /\ next(c.attempt + 1, TRUE, TRUE)
             [] try.kind = "open" ->
                  /\ opened' = Some(try.arg)
                  /\ chains' = Remove(chains, i)
                  /\ status' = COMPLETED
                  /\ progress' = IF resp.status = Some("picker") THEN 85 ELSE 100
                  /\ UNCHANGED <<error, activeInstanceIndex, isProxying>>
             [] viaProxy -> next(c.attempt, TRUE, FALSE)
             [] failover -> next(c.attempt + 1, FALSE, TRUE)
             [] OTHER ->
                  /\ error' = Some(OrElse(try.message,
                        "All media tunnels are currently blocked or congested."))
                  /\ status' = ERROR
                  /\ chains' = Remove(chains, i)
                  /\ progress' = IF try.parsed THEN 85 ELSE progress
                  /\ UNCHANGED <<opened, activeInstanceIndex, isProxying>>
  /\ UNCHANGED <<variant, analyzer, url, metadata, activeDownloadId, mirrorIndex,
                 analyses, pastes, intervals>>

\* the setTimeout callback of a finally block (4000 ms)
fetchRealMediaTimeout ==
  /\ variant = Cobalt
  /\ timers # <<>>
  /\ timers' = Tail(timers)
  /\ isProxying' = FALSE
  /\ IF Head(timers)
       THEN /\ status' = READY
            /\ activeDownloadId' = NULL
       ELSE UNCHANGED <<status, activeDownloadId>>
  /\ UNCHANGED <<variant, analyzer, url, metadata, error, progress, mirrorIndex,
                 activeInstanceIndex, opened, analyses, pastes, intervals, chains>>

NextCobalt ==
  \/ \E u \in TypedUrls(variant) : setUrl(u)
  \/ clearUrlButton
  \/ resetSystemButton
  \/ handlePasteA2
  \/ \E text \in ClipboardTexts : handlePasteA2Resolved(text)
  \/ handlePasteA2Rejected
  \/ \E t \in Triggers, bump \in BOOLEAN : handleProcessA2(t, bump)
  \/ \E i \in DOMAIN analyses : handleProcessA2Resolved(i)
  \/ \E i \in DOMAIN analyses : handleProcessA2Rejected(i)
  \/ \E id \in OptionIds(variant) : startDownloadA2(id)
  \/ \E i \in DOMAIN chains, resp \in Responses : fetchRealMedia(i, resp)
  \/ fetchRealMediaTimeout

\* =============================================================== analyzeUrl
\* The five analyzeUrl functions: geminiService.ts holds two, part_002,
\* part_003 and part_004 one each.
HF == "geminiService.ts#1"
GeminiJson == "geminiService.ts#2"
Search2 == "part_002"
Search3 == "part_003"
OEmbed == "part_004"
Services == {HF, GeminiJson, Search2, Search3, OEmbed}

\* ---------------------------------------------------------- settled promises
Resolved(value) == Some([kind |-> "resolved", value |-> value])
Rejected(message) == Some([kind |-> "rejected", message |-> message])

\* ------------------------------------------------------------ JSON values
\* A value read from parsed JSON: its type and, for a string, its characters
\* (for a number, its literal).  An object is a function of its field names.
Str(s) == [t |-> "string", v |-> s]
Num(literal) == [t |-> "number", v |-> literal]
JsNull == [t |-> "null", v |-> ""]
Undefined == [t |-> "undefined", v |-> ""]

\* obj.f
Get(obj, f) == IF f \in DOMAIN obj THEN obj[f] ELSE Undefined

JsTruthy(x) ==
  \/ x.t = "string" /\ x.v # ""
  \/ x.t = "number" /\ x.v # "0"

\* x || y
Or(x, y) == IF JsTruthy(x) THEN x ELSE y

\* -------------------------------------------------------------- getYouTubeId
Digits == CharsOf("0123456789")
IdChars == CharsOf(UpperCase) \cup CharsOf(LowerCase) \cup Digits \cup {"_", "-"}
IdMarkers == <<"shorts/", "v=", "v/", "embed/", "youtu.be/", "/v/", "watch?v=",
               "/shorts/">>
IdLength == 11

\* url.match(/(?:shorts\/|v=|...)([a-zA-Z0-9_-]{11})/): the leftmost position
\* at which a marker is followed by eleven id characters, the markers tried in
\* their order; the result is the eleven characters, or null
getYouTubeId(u) ==
  LET hit(i, k) ==
        LET m == IdMarkers[k]
        IN /\ i + Len(m) + IdLength - 1 <= Len(u)
           /\ SubSeq(u, i, i + Len(m) - 1) = m
           /\ \A j \in (i + Len(m))..(i + Len(m) + IdLength - 1) :
                SubSeq(u, j, j) \in IdChars
      hits == {h \in (1..Len(u)) \X DOMAIN IdMarkers : hit(h[1], h[2])}
      first == CHOOSE h \in hits :
                 \A g \in hits : h[1] < g[1] \/ (h[1] = g[1] /\ h[2] <= g[2])
      from == first[1] + Len(IdMarkers[first[2]])
  IN IF hits = {} THEN NULL ELSE Some(SubSeq(u, from, from + IdLength - 1))

\* ---------------------------------------------------------- text.match(...)
Min(S) == CHOOSE i \in S : \A j \in S : i <= j

\* the positions at which label occurs in text, in any case (the /i flag)
Occurrences(text, label) ==
  LET low == toLowerCase(text)
  IN {i \in 1..(Len(text) - Len(label) + 1) : SubSeq(low, i, i + Len(label) - 1) = label}

\* \s*: the first position from i on that holds no white space
skipSpace(s, i) ==
  LET inked == {j \in i..Len(s) : SubSeq(s, j, j) \notin WhiteSpace}
  IN IF inked = {} THEN Len(s) + 1 ELSE Min(inked)

\* (.*): the last position of the line that position i is on (i - 1: none)
lineEnd(s, i) ==
  LET stops == {j \in i..Len(s) : SubSeq(s, j, j) \in {"\n", "\r"}}
  IN IF stops = {} THEN Len(s) ELSE Min(stops) - 1

\* \d*: the first position from i on that holds no digit
skipDigits(s, i) ==
  LET other == {j \in i..Len(s) : SubSeq(s, j, j) \notin Digits}
  IN IF other = {} THEN Len(s) + 1 ELSE Min(other)

\* text.match(/LABEL:\s*(.*)/i)?.[1], label being "label:"
matchLine(text, label) ==
  LET at == Occurrences(text, label)
      from == skipSpace(text, Min(at) + Len(label))
  IN IF at = {} THEN NULL ELSE Some(SubSeq(text, from, lineEnd(text, from)))

\* text.match(/LABEL:\s*(\d+:?\d*)/i)?.[1], and with strict the pattern
\* /LABEL:\s*(\d+:\d+)/i: the leftmost occurrence of the label that digits
\* follow
matchDuration(text, label, strict) ==
  LET from(i) == skipSpace(text, i + Len(label))
      colon(i) == skipDigits(text, from(i))
      hasColon(i) == colon(i) <= Len(text) /\ SubSeq(text, colon(i), colon(i)) = ":"
      last(i) == IF hasColon(i) THEN skipDigits(text, colon(i) + 1) - 1
                 ELSE colon(i) - 1
      ok(i) == /\ colon(i) > from(i)
               /\ strict => (hasColon(i) /\ last(i) > colon(i))
      at == {i \in Occurrences(text, label) : ok(i)}
  IN IF at = {} THEN NULL ELSE Some(SubSeq(text, from(Min(at)), last(Min(at))))

\* s.split('\n')[0]
firstLine(s) ==
  LET stops == {j \in 1..Len(s) : SubSeq(s, j, j) = "\n"}
  IN IF stops = {} THEN s ELSE SubSeq(s, 1, Min(stops) - 1)

\* s.replace(/,$/, '')
dropLastComma(s) ==
  IF Len(s) > 0 /\ SubSeq(s, Len(s), Len(s)) = "," THEN SubSeq(s, 1, Len(s) - 1) ELSE s

\* m?.[1]?.trim() of a match m
trimmed(m) == IF m = NULL THEN "" ELSE trim(m[1])

\* ------------------------------------------------------------- JSON.parse
\* the texts that the services are sampled to answer with
JsonFull == "{\"title\":\"Clip\",\"author\":\"ann\",\"thumbnail\":\"t.jpg\",\"duration\":\"00:15\",\"platform\":\"tiktok\"}"
JsonVimeo == "{\"title\":\"Clip\",\"author\":\"ann\",\"platform\":\"vimeo\"}"
JsonNoPlatform == "{\"title\":\"Clip\"}"
JsonBlanks == "{\"title\":\"\",\"author\":\"\",\"platform\":\"\"}"
JsonNumberTitle == "{\"title\":7,\"author\":\"ann\",\"platform\":\"youtube\"}"
JsonEmptyObject == "{}"
JsonNullLiteral == "null"
JsonOEmbed == "{\"title\":\"Song\",\"author_name\":\"Ann\",\"thumbnail_url\":\"https://i.ytimg.com/vi/x/hqdefault.jpg\"}"
NotJson == "Sorry, I cannot open links."

\* JSON.parse(text) on the sampled texts: a SyntaxError, null, or an object
JSONparse(text) ==
  LET object(fields) == [kind |-> "object", fields |-> fields]
  IN CASE text = JsonFull ->
            object([title |-> Str("Clip"), author |-> Str("ann"),
                    thumbnail |-> Str("t.jpg"), duration |-> Str("00:15"),
                    platform |-> Str("tiktok")])
       [] text = JsonVimeo ->
            object([title |-> Str("Clip"), author |-> Str("ann"),
                    platform |-> Str("vimeo")])
       [] text = JsonNoPlatform -> object([title |-> Str("Clip")])
       [] text = JsonBlanks ->
            object([title |-> Str(""), author |-> Str(""), platform |-> Str("")])
       [] text = JsonNumberTitle ->
            object([title |-> Num("7"), author |-> Str("ann"),
                    platform |-> Str("youtube")])
       [] text = JsonEmptyObject -> object(<<>>)
       [] text = JsonNullLiteral -> [kind |-> "null", fields |-> <<>>]
       [] text = JsonOEmbed ->
            object([title |-> Str("Song"), author_name |-> Str("Ann"),
                    thumbnail_url |-> Str("https://i.ytimg.com/vi/x/hqdefault.jpg")])
       [] OTHER -> [kind |-> "SyntaxError", fields |-> <<>>]

\* ----------------------------------------------------------------- results
Unsplash == "https://images.unsplash.com/photo-1611162617474-5b21e879e113?auto=format&fit=crop&w=800&q=80"
UnsplashSmall == "https://images.unsplash.com/photo-1611162617474-5b21e879e113?w=800"

\* `https://i.ytimg.com/vi/${youtubeId}/${file}`
ytimg(youtubeId, file) ==
  "https://i.ytimg.com/vi/" \o (IF youtubeId = NULL THEN "null" ELSE youtubeId[1])
    \o "/" \o file

\* the record analyzeUrl resolves with: its fields, and its sources and
\* isVerified where the function sets them
Metadata(title, author, duration, platform, thumbnail, sources, isVerified) ==
  [fields |-> [title |-> title, author |-> author, duration |-> duration,
               platform |-> platform, thumbnail |-> thumbnail],
   sources |-> sources, isVerified |-> isVerified]

\* url.includes('tiktok') ? 'tiktok' : (url.includes('instagram') ? ... )
platformOf(u) ==
  IF includes(u, "tiktok") THEN "tiktok"
  ELSE IF includes(u, "instagram") THEN "instagram" ELSE "youtube"

\* ------------------------------------------------- geminiService.ts#1 (HF)
\* resp: fetch rejects ("TypeError"), or answers not ok or ok; json: .json()
\* rejects, or gives null or an object; content: choices[0].message.content
HfResponse(fetch, json, content) == [fetch |-> fetch, json |-> json, content |-> content]

analyzeUrlHF(u, resp) ==
  LET youtubeId == getYouTubeId(u)
      output == IF Truthy(resp.content) THEN resp.content[1] ELSE ""
      clean(m) == dropLastComma(firstLine(trimmed(m)))
      title == OrElse(clean(matchLine(output, "title:")),
                      IF youtubeId # NULL THEN "YouTube Shorts Content"
                      ELSE "Media Content")
      author == OrElse(clean(matchLine(output, "author:")), "Content Creator")
      duration == OrElse(trimmed(matchDuration(output, "time:", FALSE)), "0:15")
      thumbnail == IF youtubeId # NULL THEN ytimg(youtubeId, "maxresdefault.jpg")
                   ELSE Unsplash
  IN IF resp.fetch = "ok" /\ resp.json = "object"
       THEN Resolved(Metadata(Str(title), Str(author), Str(duration),
                              Str(platformOf(u)), Str(thumbnail), Some(<<>>), NULL))
     ELSE IF youtubeId # NULL
       THEN Resolved(Metadata(Str("YouTube Video"), Str("Original Creator"),
                              Str("--:--"), Str("youtube"),
                              Str(ytimg(youtubeId, "hqdefault.jpg")), Some(<<>>), NULL))
     ELSE Rejected("Target analysis failed. Verify your API token and connectivity.")

\* ------------------------------------------- part_002, part_003 (Gemini search)
\* resp: generateContent rejects or resolves; text: response.text; chunks:
\* candidates[0].groundingMetadata.groundingChunks, each with its web entry
GenResponse(call, text, chunks) == [call |-> call, text |-> text, chunks |-> chunks]

\* chunks?.map(...).filter(s => s !== null) || []
sourcesOf(chunks) ==
  LET RECURSIVE map(_)
      map(index) ==
        IF index > Len(chunks[1]) THEN <<>>
        ELSE LET web == chunks[1][index].web
             IN (IF web = NULL THEN <<>>
                 ELSE << [title |-> IF Truthy(web[1].title) THEN web[1].title[1]
                                    ELSE "Source " \o ToString(index),
                          uri |-> IF Truthy(web[1].uri) THEN web[1].uri[1] ELSE ""] >>)
                \o map(index + 1)
  IN IF chunks = NULL THEN <<>> ELSE map(1)

analyzeUrlP2(u, resp) ==
  LET youtubeId == getYouTubeId(u)
      text == IF Truthy(resp.text) THEN resp.text[1] ELSE ""
      title == OrElse(trimmed(matchLine(text, "title:")),
                      IF youtubeId # NULL THEN "YouTube Video" ELSE "Media Clip")
      author == OrElse(trimmed(matchLine(text, "author:")), "Verified Creator")
      duration == OrElse(trimmed(matchDuration(text, "duration:", TRUE)), "0:15")
      thumbnail == IF youtubeId # NULL THEN ytimg(youtubeId, "hqdefault.jpg")
                   ELSE Unsplash
  IN IF resp.call = "resolves"
       THEN Resolved(Metadata(Str(title), Str(author), Str(duration),
                              Str(platformOf(u)), Str(thumbnail),
                              Some(sourcesOf(resp.chunks)), NULL))
     ELSE IF youtubeId # NULL
       THEN Resolved(Metadata(Str("YouTube Content"), Str("Creator"), Str("--:--"),
                              Str("youtube"), Str(ytimg(youtubeId, "hqdefault.jpg")),
                              Some(<<>>), NULL))
     ELSE Rejected("Analysis timed out or failed. Please ensure the link is public.")

\* sensitivity variant of analyzeUrlP3: the catch block always rejects
analyzeUrlP3NoFallback(u, resp) ==
  LET text == IF Truthy(resp.text) THEN resp.text[1] ELSE ""
  IN IF resp.call = "resolves"
       THEN Resolved(Metadata(Str(OrElse(trimmed(matchLine(text, "title:")), "Media Content")),
                              Str("Content Creator"), Str("0:15"),
                              Str(platformOf(u)), Str(Unsplash),
                              Some(sourcesOf(resp.chunks)), NULL))
     ELSE Rejected("Target analysis failed. Verify the URL is public and try again.")

analyzeUrlP3(u, resp) ==
  LET youtubeId == getYouTubeId(u)
      text == IF Truthy(resp.text) THEN resp.text[1] ELSE ""
      title == OrElse(trimmed(matchLine(text, "title:")),
                      IF youtubeId # NULL THEN "YouTube Video" ELSE "Media Content")
      author == OrElse(trimmed(matchLine(text, "author:")), "Content Creator")
      duration == OrElse(trimmed(matchDuration(text, "duration:", FALSE)), "0:15")
      thumbnail == IF youtubeId # NULL THEN ytimg(youtubeId, "maxresdefault.jpg")
                   ELSE Unsplash
  IN IF resp.call = "resolves"
       THEN Resolved(Metadata(Str(title), Str(author), Str(duration),
                              Str(platformOf(u)), Str(thumbnail),
                              Some(sourcesOf(resp.chunks)), NULL))
     ELSE IF youtubeId # NULL
       THEN Resolved(Metadata(Str("YouTube Content"), Str("Creator"), Str("--:--"),
                              Str("youtube"), Str(ytimg(youtubeId, "hqdefault.jpg")),
                              Some(<<>>), NULL))
     ELSE Rejected("Target analysis failed. Verify the URL is public and try again.")

\* --------------------------------------------- geminiService.ts#2 (Gemini JSON)
\* generateContent is awaited outside the try block: its rejection is
\* analyzeUrl's.  The result is the parsed object with thumbnail replaced.
SdkMessage == "API key not valid. Please pass a valid API key."

analyzeUrlGemini(u, resp) ==
  LET failed == Rejected("Analysis failed. Please check your URL format or verify your API key is correctly set in Vercel.")
      data == JSONparse(resp.text[1])
      spread == [f \in DOMAIN data.fields \cup {"thumbnail"} |->
                   IF f = "thumbnail" THEN Str(Unsplash) ELSE data.fields[f]]
  IN IF resp.call # "resolves" THEN Rejected(SdkMessage)
     ELSE IF ~Truthy(resp.text) THEN failed
     ELSE IF data.kind # "object" THEN failed
     ELSE IF Get(data.fields, "title").t # "string" THEN failed
     ELSE Resolved([fields |-> spread, sources |-> NULL, isVerified |-> NULL])

\* ------------------------------------------------------- part_004 (oEmbed)
\* sensitivity variant of isYoutube: the url is tested as given
isYoutubeAsGiven(u) == includes(u, "youtube.com") \/ includes(u, "youtu.be")

isYoutube(u) ==
  includes(toLowerCase(u), "youtube.com") \/ includes(toLowerCase(u), "youtu.be")

\* url.split('&')[0]
cleanUrl(u) ==
  LET amps == {j \in 1..Len(u) : SubSeq(u, j, j) = "&"}
  IN IF amps = {} THEN u ELSE SubSeq(u, 1, Min(amps) - 1)

\* resp: fetch rejects ("TypeError"), or answers not ok or ok with a body;
\* the result is the parsed body, or null
OEmbedResponse(fetch, body) == [fetch |-> fetch, body |-> body]

fetchYoutubeOEmbed(resp) ==
  IF resp.fetch = "ok" /\ JSONparse(resp.body).kind = "object"
    THEN Some(JSONparse(resp.body).fields)
    ELSE NULL

\* the record built from a truthy oEmbed answer
analyzeUrlP4OEmbed(u, oembed) ==
  Resolved(Metadata(Or(Get(oembed, "title"), Str("YouTube Content")),
                    Or(Get(oembed, "author_name"), Str("Official Creator")),
                    Str("Shorts"), Str("youtube"),
                    Or(Get(oembed, "thumbnail_url"),
                       Str(ytimg(getYouTubeId(u), "maxresdefault.jpg"))),
                    NULL, Some(TRUE)))

\* the deep analysis: the try block around generateContent and its catch
analyzeUrlP4Gemini(u, resp) ==
  LET youtubeId == getYouTubeId(u)
      data == JSONparse(IF Truthy(resp.text) THEN resp.text[1] ELSE "{}")
      thumb == IF isYoutube(u) /\ youtubeId # NULL
                 THEN ytimg(youtubeId, "maxresdefault.jpg") ELSE Unsplash
  IN IF resp.call = "resolves" /\ data.kind = "object"
       THEN Resolved(Metadata(Or(Get(data.fields, "title"), Str("Media Content")),
                              Or(Get(data.fields, "author"), Str("Content Creator")),
                              Str("--:--"),
                              Or(Get(data.fields, "platform"),
                                 Str(IF isYoutube(u) THEN "youtube" ELSE "unknown")),
                              Str(thumb), NULL, Some(FALSE)))
     ELSE Resolved(Metadata(
            Str(IF youtubeId # NULL THEN "YouTube Shorts Content" ELSE "Media Clip"),
            Str("Original Creator"), Str("--:--"),
            Str(IF isYoutube(u) THEN "youtube" ELSE "unknown"),
            Str(IF youtubeId # NULL THEN ytimg(youtubeId, "hqdefault.jpg")
                ELSE UnsplashSmall),
            NULL, Some(FALSE)))

\* ------------------------------------------------------ analyzeUrl, as steps
\* the urls analyzeUrl is called with
AnalyzedUrls ==
  { "https://youtu.be/dQw4w9WgXcQ",
    "https://www.youtube.com/watch?v=dQw4w9WgXcQ&t=5",
    "https://www.YouTube.com/shorts/abc",
    "https://www.tiktok.com/@u/video/1",
    "https://www.tiktok.com/embed/dQw4w9WgXcQ",
    "https://www.instagram.com/reel/x/",
    "https://vimeo.com/1" }

\* what the language models answer with, as text
TextLines == "TITLE: My Clip\nAUTHOR: Ann\nDURATION: 1:05"
TextOneLine == "TITLE: My Clip, AUTHOR: Ann, TIME: 0:42"
TextLower == "title:\nauthor: ,\ntime: 7 min"
TextBlankTitle == "TITLE:   "
ModelTexts == {TextLines, TextOneLine, TextLower, TextBlankTitle, NotJson}

HfResponses ==
  { HfResponse("TypeError", "none", NULL),
    HfResponse("notOk", "none", NULL),
    HfResponse("ok", "SyntaxError", NULL),
    HfResponse("ok", "null", NULL),
    HfResponse("ok", "object", NULL) }
  \cup {HfResponse("ok", "object", Some(text)) : text \in ModelTexts}

GroundingChunks ==
  << [web |-> Some([title |-> Some("Clip page"), uri |-> Some("https://a.example/")])],
     [web |-> NULL],
     [web |-> Some([title |-> NULL, uri |-> NULL])] >>

GenResponses ==
  { GenResponse("rejects", NULL, NULL),
    GenResponse("resolves", NULL, NULL),
    GenResponse("resolves", Some(TextLines), Some(GroundingChunks)) }
  \cup {GenResponse("resolves", Some(text), NULL) : text \in ModelTexts}

JsonTexts ==
  {JsonFull, JsonVimeo, JsonNoPlatform, JsonBlanks, JsonNumberTitle,
   JsonEmptyObject, JsonNullLiteral, NotJson}

JsonGenResponses ==
  { GenResponse("rejects", NULL, NULL),
    GenResponse("resolves", NULL, NULL),
    GenResponse("resolves", Some(""), NULL) }
  \cup {GenResponse("resolves", Some(text), NULL) : text \in JsonTexts}

OEmbedResponses ==
  { OEmbedResponse("TypeError", ""), OEmbedResponse("notOk", NotJson) }
  \cup {OEmbedResponse("ok", body) :
          body \in {JsonOEmbed, JsonEmptyObject, JsonNullLiteral, NotJson}}

app == <<variant, hooks, mirrorHooks, inFlight>>

\* analyzeUrl(u) is called and runs to its first await: part_004 asks oEmbed
\* first for a YouTube url, the others ask their language model
analyzeUrl(u) ==
  /\ service \in Services
  /\ stage = "idle"
  /\ input' = u
  /\ IF service = OEmbed /\ isYoutube(u)
       THEN /\ stage' = "oembed"
            /\ calls' = << [to |-> "oembed", url |-> cleanUrl(u)] >>
       ELSE /\ stage' = "model"
            /\ calls' = << [to |-> "model", url |-> u] >>
  /\ UNCHANGED <<app, service, outcome>>

\* geminiService.ts#1: the fetch settles
settleHF(resp) ==
  /\ service = HF
  /\ stage = "model"
  /\ outcome' = analyzeUrlHF(input, resp)
  /\ stage' = "settled"
  /\ UNCHANGED <<app, service, input, calls>>

\* geminiService.ts#2: generateContent settles
settleGemini(resp) ==
  /\ service = GeminiJson
  /\ stage = "model"
  /\ outcome' = analyzeUrlGemini(input, resp)
  /\ stage' = "settled"
  /\ UNCHANGED <<app, service, input, calls>>

\* part_002: generateContent settles
settleP2(resp) ==
  /\ service = Search2
  /\ stage = "model"
  /\ outcome' = analyzeUrlP2(input, resp)
  /\ stage' = "settled"
  /\ UNCHANGED <<app, service, input, calls>>

\* part_003: generateContent settles
settleP3(resp) ==
  /\ service = Search3
  /\ stage = "model"
  /\ outcome' = analyzeUrlP3(input, resp)
  /\ stage' = "settled"
  /\ UNCHANGED <<app, service, input, calls>>

\* part_004: the oEmbed request settles; without an answer the call goes on
\* to generateContent
settleP4OEmbed(resp) ==
  /\ service = OEmbed
  /\ stage = "oembed"
  /\ LET oembed == fetchYoutubeOEmbed(resp)
     IN IF oembed # NULL
          THEN /\ outcome' = analyzeUrlP4OEmbed(input, oembed[1])
               /\ stage' = "settled"
               /\ UNCHANGED calls
          ELSE /\ stage' = "model"
               /\ calls' = Append(calls, [to |-> "model", url |-> input])
               /\ UNCHANGED outcome
  /\ UNCHANGED <<app, service, input>>

\* part_004: generateContent settles
settleP4Gemini(resp) ==
  /\ service = OEmbed
  /\ stage = "model"
  /\ outcome' = analyzeUrlP4Gemini(input, resp)
  /\ stage' = "settled"
  /\ UNCHANGED <<app, service, input, calls>>

NextAnalyze ==
  \/ \E u \in AnalyzedUrls : analyzeUrl(u)
  \/ \E resp \in HfResponses : settleHF(resp)
  \/ \E resp \in JsonGenResponses : settleGemini(resp)
  \/ \E resp \in GenResponses : settleP2(resp)
  \/ \E resp \in GenResponses : settleP3(resp)
  \/ \E resp \in OEmbedResponses : settleP4OEmbed(resp)
  \/ \E resp \in JsonGenResponses : settleP4Gemini(resp)

\* no component is mounted: one analyzeUrl call is followed
Unmounted == "none"
InitAnalyze ==
  /\ variant = Unmounted
  /\ InitHooks
  /\ service \in Services
  /\ input = ""
  /\ stage = "idle"
  /\ calls = <<>>
  /\ outcome = NULL

SpecAnalyze == InitAnalyze /\ [][NextAnalyze]_vars

\* ------------------------------------------------------------------- Next
NextTimerVariants ==
  \/ \E u \in TypedUrls(variant) : setUrl(u)
  \/ handleClearP0
  \/ handleClearP1
  \/ \E text \in ClipboardTexts : handlePasteP0(text)
  \/ \E text \in ClipboardTexts : handlePasteP1(text)
  \/ \E t \in Triggers : handleAnalyzeP0(t)
  \/ \E i \in DOMAIN analyses : handleAnalyzeP0Resolved(i)
  \/ \E i \in DOMAIN analyses, msg \in RejectMessages : handleAnalyzeP0Rejected(i, msg)
  \/ \E t \in Triggers : handleAnalyzeP1(t)
  \/ \E i \in DOMAIN analyses : handleAnalyzeP1Resolved(i)
  \/ \E i \in DOMAIN analyses, msg \in RejectMessages : handleAnalyzeP1Rejected(i, msg)
  \/ \E id \in OptionIds(variant) : startDownloadP0(id)
  \/ \E id \in OptionIds(variant) : startDownloadP1(id)
  \/ \E i \in DOMAIN intervals, r \in RandomSteps(variant) : intervalCallback(i, r)
  \/ completedTimeout

Next == NextTimerVariants \/ NextMirror \/ NextCobalt

Spec == Init /\ [][Next]_vars

\* the components with the setInterval progress bar
InitTimerVariants == Init /\ variant \in TimerVariants
SpecTimerVariants == InitTimerVariants /\ [][NextTimerVariants]_vars

\* the components that post to the mirrors
NextMirrorVariants == NextMirror \/ NextCobalt
InitMirrorVariants == Init /\ variant \in MirrorVariants
SpecMirrorVariants == InitMirrorVariants /\ [][NextMirrorVariants]_vars

\* =================================================================== claims

\* ----------------------------------------------------------------------- C1
\* the arrows of the diagram IDLE -> ANALYZING -> READY -> DOWNLOADING ->
\* COMPLETED/ERROR
DiagramTransitions ==
  { <<IDLE, ANALYZING>>, <<ANALYZING, READY>>, <<READY, DOWNLOADING>>,
    <<DOWNLOADING, COMPLETED>>, <<ANALYZING, ERROR>>, <<DOWNLOADING, ERROR>> }

\* C1 as stated: apart from a step to IDLE and the return from COMPLETED to
\* READY, every change of status follows an arrow of the diagram.
C1_DiagramOnly ==
  [][status' # status =>
       \/ status' = IDLE
       \/ (status = COMPLETED /\ status' = READY)
       \/ <<status, status'>> \in DiagramTransitions]_vars

\* C1, amended: each status has its own setters, which run from whatever
\* status they find.  ANALYZING is entered only by starting an analysis,
\* READY only by a resolved analysis or a reset timer, DOWNLOADING only by
\* starting a download from READY or COMPLETED or by a retry of a mirror
\* chain, COMPLETED only by an interval or a mirror chain that ends, ERROR
\* only (with an error message) by a failed validation, a rejected analysis
\* or a mirror chain that ends, IDLE only by the user's clear, reset or paste.
C1_StatusSetters ==
  [][status' # status =>
       CASE status' = ANALYZING ->
              /\ Len(analyses') = Len(analyses) + 1
              /\ error' = NULL
         [] status' = READY ->
              \/ Len(analyses') = Len(analyses) - 1 /\ metadata' # NULL
              \/ timers' = Tail(timers) /\ timers # <<>>
         [] status' = DOWNLOADING ->
              \/ /\ status \in {READY, COMPLETED}
                 /\ metadata # NULL
                 /\ \/ Len(intervals') = Len(intervals) + 1
                    \/ Len(chains') = Len(chains) + 1
              \/ /\ Len(chains') = Len(chains)
                 /\ chains' # chains
         [] status' = COMPLETED ->
              \/ Len(intervals') = Len(intervals) - 1
              \/ Len(chains') = Len(chains) - 1 /\ opened' # NULL
         [] status' = ERROR ->
              /\ error' # NULL
              /\ \/ Len(analyses') = Len(analyses) - 1
                 \/ Len(chains') = Len(chains) - 1
                 \/ /\ variant = Validating
                    /\ ~validateUrl(url)
                    /\ UNCHANGED inFlight
         [] status' = IDLE ->
              /\ UNCHANGED <<analyses, intervals, timers, chains>>
              /\ \/ metadata' = NULL
                 \/ variant = Cobalt /\ error' = NULL]_vars

\* C1: an analysis has been started over the results of an earlier one
\* (App.tsx#1 keeps metadata): ANALYZING was not entered from IDLE
C1_Witness == status = ANALYZING /\ metadata # NULL

\* ----------------------------------------------------------------------- C2
\* a request that failed: a rejected fetch, a non-OK response, or a body
\* without a usable status
UsableStatuses == SuccessStatuses \cup {"picker"}
FailedRequest(resp) ==
  \/ resp.fetch # "ok"
  \/ resp.json # "object"
  \/ resp.status = NULL
  \/ resp.status[1] \notin UsableStatuses

\* the chain has used up its retries (in App.tsx#2: and its proxy)
BudgetUsedUp(c) ==
  IF variant = Mirror THEN c.attempt = 2 * Len(MIRRORS)
  ELSE c.attempt = Len(COBALT_INSTANCES) - 1 /\ c.forceProxy

\* C2 as stated: in the mirror variants a chain whose retry budget is used up
\* ends with status ERROR and an error message when its request fails.
C2_ExhaustionSurfacesError ==
  [][\A i \in DOMAIN chains, resp \in Responses :
       ( /\ FailedRequest(resp)
         /\ BudgetUsedUp(chains[i])
         /\ (executeDownload(i, resp) \/ fetchRealMedia(i, resp)) )
       => (status' = ERROR /\ error' # NULL /\ chains' = Remove(chains, i))]_vars

\* ----------------------------------------------------------------------- C3
\* the ticks interval iv has had: those that added nothing, and those that
\* added the largest step
Ticks(iv) == iv.idle + (iv.currentProgress \div (RandomRange(variant) - 1))

\* the fewest ticks that reach 100
LeastTicks == (Full + RandomRange(variant) - 2) \div (RandomRange(variant) - 1)

SocialUrls == {UrlYoutuBe, UrlYouTubeCom, UrlTikTok, UrlInstagram}

ValidationMessage == "Please enter a valid YouTube, TikTok, or Instagram link."

\* what handleAnalyze does on a url that matches none of the four
RejectsUrl ==
  /\ ENABLED (handleAnalyzeP0("enter") /\ status' = ERROR
                /\ error' = Some(ValidationMessage) /\ analyses' = analyses)
  /\ \A t \in Triggers :
       ~ ENABLED (handleAnalyzeP0(t)
                    /\ (status' # ERROR \/ analyses' # analyses))

\* what handleAnalyze does on a url that matches one of the four (an
\* analysis is started when the model has room for one)
AcceptsUrl ==
  /\ Pending < MaxPending =>
       ENABLED (handleAnalyzeP0("enter") /\ status' = ANALYZING
                  /\ analyses' = Append(analyses, url))
  /\ \A t \in Triggers :
       ~ ENABLED (handleAnalyzeP0(t)
                    /\ (status' # ANALYZING \/ analyses' # Append(analyses, url)))

\* C4 as stated: in the validating variant, handleAnalyze on a non-empty url
\* that matches none of the four sets the validation message and ERROR and
\* starts no analysis; on a url that matches it enters ANALYZING.
C4_NonEmptyUrl ==
  variant = Validating /\ url # EmptyUrl =>
    IF url \in SocialUrls THEN AcceptsUrl ELSE RejectsUrl

\* C4, amended: the same, for a url that is not blank (non-empty after
\* trim()); on a blank url handleAnalyze returns without a change.
C4_NonBlankUrl ==
  variant = Validating =>
    IF trim(url) = "" THEN \A t \in Triggers : ~ ENABLED handleAnalyzeP0(t)
    ELSE IF url \in SocialUrls THEN AcceptsUrl ELSE RejectsUrl

\* C4: the validation has rejected a url
C4_Witness ==
  /\ variant = Validating
  /\ status = ERROR
  /\ error = Some(ValidationMessage)
  /\ url \in {UrlExample, UrlNearMiss}

\* ----------------------------------------------------------------------- C5
Hosts(list) == {list[k] : k \in DOMAIN list}

\* C5 as stated: when a chain reports ERROR, every mirror of the list has
\* been the target of one of its requests.
C5_EveryMirrorTried ==
  [][\A i \in DOMAIN chains :
       (variant \in MirrorVariants /\ chains' = Remove(chains, i) /\ status' = ERROR)
       => chains[i].tried =
            Hosts(IF variant = Mirror THEN MIRRORS ELSE COBALT_INSTANCES)]_vars

\* ----------------------------------------------------------------------- C6
\* C6: one startDownload of App.tsx#1 issues the requests of attempts
\* 0..2*|MIRRORS| at most: every settled request either ends the chain, with
\* status COMPLETED or ERROR, or starts the request of the next attempt, and
\* the request of attempt 2*|MIRRORS| ends it.
C6_GivesUp ==
  [][variant = Mirror =>
       \A i \in DOMAIN chains, resp \in Responses :
         executeDownload(i, resp) =>
           /\ chains[i].attempt <= 2 * Len(MIRRORS)
           /\ IF Len(chains') = Len(chains)
                THEN /\ chains'[i].attempt = chains[i].attempt + 1
                     /\ chains[i].attempt < 2 * Len(MIRRORS)
                     /\ status' = DOWNLOADING
                ELSE /\ chains' = Remove(chains, i)
                     /\ status' \in {COMPLETED, ERROR}]_vars

\* C6: a chain has given up after its last attempt
C6_Witness ==
  /\ variant = Mirror
  /\ status = ERROR
  /\ error = Some("Connection failed. This service might be temporarily unavailable. Please try again later.")

\* ----------------------------------------------------------------------- C7
\* C7 as stated: fetchRealMedia is a fixed-size retry loop: no request of a
\* chain has a retryCount beyond the budget of |COBALT_INSTANCES| - 1.
C7_FixedSizeLoop ==
  variant = Cobalt =>
    \A i \in DOMAIN chains : chains[i].attempt <= Len(COBALT_INSTANCES) - 1

\* ----------------------------------------------------------------------- C8
\* C8 as stated: whenever status is ERROR, error holds a message.
C8_ErrorHasMessage == status = ERROR => error # NULL

\* ----------------------------------------------------------------------- C9
\* C9 as stated: in the mirror variants status is COMPLETED only after
\* window.open was given a defined, non-empty url.
C9_CompletedOpenedUrl ==
  (variant \in MirrorVariants /\ status = COMPLETED) =>
    (opened # NULL /\ Truthy(opened[1]))


\* ---------------------------------------------------------------------- C10
MediaPlatforms == {"youtube", "tiktok", "instagram", "unknown"}

\* C10 as stated: every record an analyzeUrl resolves with has its platform
\* in {youtube, tiktok, instagram, unknown}.
C10_PlatformInEnumeration ==
  (outcome # NULL /\ outcome[1].kind = "resolved") =>
    /\ Get(outcome[1].value.fields, "platform").t = "string"
    /\ Get(outcome[1].value.fields, "platform").v \in MediaPlatforms

\* ---------------------------------------------------------------------- C11
MetadataFields == {"title", "author", "duration", "platform", "thumbnail"}

\* value x of a record field is there and is not the empty string
PresentNonEmpty(x) ==
  /\ x.t \notin {"undefined", "null"}
  /\ x.t = "string" => x.v # ""

\* C11 as stated: every record an analyzeUrl resolves with has title, author,
\* duration, platform and thumbnail, each present and non-empty.
C11_CompleteRecord ==
  (outcome # NULL /\ outcome[1].kind = "resolved") =>
    \A f \in MetadataFields : PresentNonEmpty(Get(outcome[1].value.fields, f))

\* ---------------------------------------------------------------------- C12
\* C12: a settled analyzeUrl takes status out of ANALYZING: resolved, the
\* result is stored in metadata and status becomes READY; rejected, an error
\* message is set and status becomes ERROR.  While status is ANALYZING an
\* analyzeUrl call is pending, so ANALYZING ends when the call settles.
C12_SettledLeavesAnalyzing ==
  /\ [](status = ANALYZING => analyses # <<>>)
  /\ [][Len(analyses') = Len(analyses) - 1 =>
          \E i \in DOMAIN analyses :
            /\ analyses' = Remove(analyses, i)
            /\ \/ /\ status' = READY
                  /\ metadata' = Some(Data(analyses[i]))
                  /\ error' = error
               \/ /\ status' = ERROR
                  /\ error' # NULL
                  /\ error'[1] # ""
                  /\ metadata' = metadata]_vars

\* C12: an analysis has settled while status was no longer ANALYZING (the
\* user had cleared the form): status is READY with the result stored
C12_Witness ==
  /\ status = READY
  /\ metadata # NULL
  /\ url = EmptyUrl
  /\ analyses = <<>>

\* ---------------------------------------------------------------------- C13
\* C13 as stated: at most one download is active at any time: one progress
\* interval or one mirror request chain.
C13_OneDownloadActive == Len(intervals) + Len(chains) <= 1

\* ---------------------------------------------------------------------- C14
\* the analyzeUrl functions that parse the model's text
TextServices == {HF, Search2, Search3}

\* the external call of geminiService.ts#1 failed: the fetch rejected, the
\* response was not ok, or its body was no JSON object
HfFailed(resp) == resp.fetch # "ok" \/ resp.json # "object"

\* the fixed record of the catch block for the YouTube id of url u
IsYouTubeFallback(o, u) ==
  /\ o # NULL
  /\ o[1].kind = "resolved"
  /\ o[1].value.fields.title \in {Str("YouTube Video"), Str("YouTube Content")}
  /\ o[1].value.fields.author \in {Str("Original Creator"), Str("Creator")}
  /\ o[1].value.fields.duration = Str("--:--")
  /\ o[1].value.fields.platform = Str("youtube")
  /\ o[1].value.fields.thumbnail =
       Str("https://i.ytimg.com/vi/" \o getYouTubeId(u)[1] \o "/hqdefault.jpg")
  /\ o[1].value.sources = Some(<<>>)

IsRejected(o) == o # NULL /\ o[1].kind = "rejected" /\ o[1].message # ""

\* C14: in the text-parsing variants a failed external call resolves with the
\* fixed YouTube fallback record when getYouTubeId(url) is non-null and rejects
\* with an Error otherwise; no call rejects for a url that holds a YouTube id.
C14_FallbackOrReject ==
  /\ []((service \in TextServices /\ outcome # NULL /\ outcome[1].kind = "rejected")
          => getYouTubeId(input) = NULL)
  /\ [][/\ \A resp \in HfResponses :
             (settleHF(resp) /\ HfFailed(resp)) =>
               IF getYouTubeId(input) # NULL THEN IsYouTubeFallback(outcome', input)
               ELSE IsRejected(outcome')
        /\ \A resp \in GenResponses :
             ((settleP2(resp) \/ settleP3(resp)) /\ resp.call = "rejects") =>
               IF getYouTubeId(input) # NULL THEN IsYouTubeFallback(outcome', input)
               ELSE IsRejected(outcome')]_vars

\* C14: a failed call has resolved with the fallback record of part_003
C14_Witness ==
  /\ service = Search3
  /\ IsYouTubeFallback(outcome, input)
  /\ outcome[1].value.fields.title = Str("YouTube Content")

\* ---------------------------------------------------------------------- C15
\* the url analyzeUrl was called with holds youtube.com or youtu.be, in any
\* case
YoutubeLink ==
  \E host \in {"youtube.com", "youtu.be"} : includes(toLowerCase(input), host)

\* the oEmbed request succeeded: the response is ok and its body is an object
OEmbedSucceeded(resp) == resp.fetch = "ok" /\ JSONparse(resp.body).kind = "object"

\* C15: in part_004 a YouTube url is asked of oEmbed first, any other url of
\* Gemini at once; an oEmbed request that succeeds settles the call with a
\* record built from its answer, isVerified = true, and no Gemini call; one
\* that fails is followed by the Gemini call; every record that follows a
\* Gemini call has isVerified = false.
C15_OEmbedFirstPass ==
  /\ []((service = OEmbed /\ stage # "idle") =>
          /\ Head(calls).to = (IF YoutubeLink THEN "oembed" ELSE "model")
          /\ \A k \in DOMAIN calls : (calls[k].to = "oembed") => (k = 1)
          /\ Len(calls) <= 2)
  /\ []((service = OEmbed /\ stage = "settled") =>
          /\ outcome # NULL
          /\ outcome[1].kind = "resolved"
          /\ outcome[1].value.isVerified =
               Some(\A k \in DOMAIN calls : calls[k].to # "model"))
  /\ [][\A resp \in OEmbedResponses :
          settleP4OEmbed(resp) =>
            IF OEmbedSucceeded(resp)
              THEN /\ calls' = calls
                   /\ outcome' # NULL
                   /\ outcome'[1].kind = "resolved"
                   /\ outcome'[1].value.isVerified = Some(TRUE)
                   /\ outcome'[1].value.fields.platform = Str("youtube")
                   /\ (resp.body = JsonOEmbed) =>
                        /\ outcome'[1].value.fields.title = Str("Song")
                        /\ outcome'[1].value.fields.author = Str("Ann")
              ELSE /\ calls' = Append(calls, [to |-> "model", url |-> input])
                   /\ outcome' = NULL]_vars

\* C15: a YouTube url written in capitals was answered by oEmbed alone
C15_Witness ==
  /\ service = OEmbed
  /\ stage = "settled"
  /\ input = "https://www.YouTube.com/shorts/abc"
  /\ Len(calls) = 1
  /\ outcome[1].value.isVerified = Some(TRUE)

\* ---------------------------------------------------------------------- C16
\* the entry that follows host in list, cyclically
NextIn(list, host) ==
  LET k == CHOOSE j \in DOMAIN list : list[j] = host
  IN list[(k % Len(list)) + 1]

\* C16 as stated: in executeDownload attempt k goes through the proxy iff k
\* is odd, an odd attempt posts to the mirror of the attempt before it, and an
\* even attempt posts to the next mirror of MIRRORS.
C16_DirectThenProxyThenNext ==
  [][\A i \in DOMAIN chains :
       (variant = Mirror /\ Len(chains') = Len(chains) /\ chains'[i] # chains[i]) =>
         /\ chains'[i].attempt = chains[i].attempt + 1
         /\ viaCorsProxy(chains'[i].attempt) <=> (chains[i].attempt % 2 = 0)
         /\ activeMirror(chains'[i]) =
              IF chains'[i].attempt % 2 = 1 THEN activeMirror(chains[i])
              ELSE NextIn(MIRRORS, activeMirror(chains[i]))]_vars

\* ---------------------------------------------------------------------- C17
\* C17 as stated: in fetchRealMedia a non-OK response with retries left is
\* followed by a request to the next entry of COBALT_INSTANCES.
C17_CyclesToNextMirror ==
  [][\A i \in DOMAIN chains, resp \in Responses :
       ( /\ resp.fetch = "notOk"
         /\ retriesLeft(chains[i].attempt)
         /\ fetchRealMedia(i, resp) ) =>
         /\ Len(chains') = Len(chains)
         /\ chains'[i].attempt = chains[i].attempt + 1
         /\ targetApi(chains'[i]) = NextIn(COBALT_INSTANCES, targetApi(chains[i]))
         /\ targetApi(chains'[i]) # targetApi(chains[i])]_vars

\* ---------------------------------------------------------------------- C18
\* a TypeError is raised while the response is handled: the fetch rejects, or
\* a property of a null body or of a missing picker list is read
RaisesTypeError(resp, retryCount) ==
  LET try == fetchRealMediaTry(resp, retryCount)
  IN try.kind = "throw" /\ try.type = "TypeError"

\* C18 as stated: in fetchRealMedia a TypeError on a direct request is retried
\* through the proxy against the same mirror with retryCount unchanged; on a
\* proxied request it moves on to the next mirror when retries are left and
\* ends in ERROR otherwise.
C18_TypeErrorRecovery ==
  [][\A i \in DOMAIN chains, resp \in Responses :
       (fetchRealMedia(i, resp) /\ RaisesTypeError(resp, chains[i].attempt)) =>
         IF ~chains[i].forceProxy
           THEN /\ Len(chains') = Len(chains)
                /\ chains'[i].forceProxy
                /\ chains'[i].attempt = chains[i].attempt
                /\ targetApi(chains'[i]) = targetApi(chains[i])
         ELSE IF retriesLeft(chains[i].attempt)
           THEN /\ Len(chains') = Len(chains)
                /\ ~chains'[i].forceProxy
                /\ chains'[i].attempt = chains[i].attempt + 1
                /\ targetApi(chains'[i]) = NextIn(COBALT_INSTANCES, targetApi(chains[i]))
         ELSE /\ chains' = Remove(chains, i)
              /\ status' = ERROR]_vars

\* ---------------------------------------------------------------------- C19
\* the messages a download chain reports with status ERROR
DownloadErrors ==
  { "Connection failed. This service might be temporarily unavailable. Please try again later.",
    "Failed to fetch", "Mirror Status Error: 502", "Unexpected token < in JSON",
    "Cannot read properties of null", "Cannot read properties of undefined",
    TextBusy, "Handshake rejected by media engine.",
    "Invalid protocol response from tunnel." }

\* a setTimeout callback of a finally block fires
DeferredReset == timers # <<>> /\ timers' = Tail(timers)

\* C19 as stated: with status ERROR reported by a download chain, the
\* deferred callback of the finally block changes neither status nor
\* activeDownloadId.
C19_ErrorSurvivesReset ==
  [][( /\ variant \in MirrorVariants
       /\ status = ERROR
       /\ error # NULL
       /\ error[1] \in DownloadErrors
       /\ DeferredReset ) =>
       (status' = ERROR /\ activeDownloadId' = activeDownloadId)]_vars

\* ---------------------------------------------------------------------- C20
\* C20 as stated: while a download chain has a request pending, a deferred
\* callback of a finally block neither sets READY nor clears
\* activeDownloadId.
C20_NoResetMidChain ==
  [][( /\ variant \in MirrorVariants
       /\ chains # <<>>
       /\ status = DOWNLOADING
       /\ DeferredReset ) =>
       (status' = DOWNLOADING /\ activeDownloadId' = activeDownloadId)]_vars

\* ---------------------------------------------------------------------- C21
\* C21 as stated: at most one analyzeUrl call is in flight at any time.
C21_OneAnalysisInFlight == Len(analyses) <= 1

\* ---------------------------------------------------------------------- C22
\* C22 as stated: with status READY, DOWNLOADING or COMPLETED, metadata is
\* non-null.
C22_ResultsHaveMetadata ==
  status \in {READY, DOWNLOADING, COMPLETED} => metadata # NULL

\* ---------------------------------------------------------------------- C23
\* the form as handleClear / handleReset leave it
ClearedForm ==
  /\ url = EmptyUrl
  /\ metadata = NULL
  /\ error = NULL
  /\ progress = 0
  /\ activeDownloadId = NULL
  /\ status = IDLE

\* a step that is no user action: an analyzeUrl or a mirror request settles,
\* an interval ticks, or a reset timer fires
CallbackStep ==
  \/ Len(analyses') < Len(analyses)
  \/ intervals' # intervals /\ Len(intervals') <= Len(intervals)
  \/ chains' # chains /\ Len(chains') <= Len(chains)
  \/ DeferredReset

\* C23 as stated: in the components with handleClear / handleReset, no
\* settlement, tick or timer changes the cleared form.
C23_ClearedStaysCleared ==
  [][(variant \in {Validating, Timer, Mirror} /\ ClearedForm /\ CallbackStep)
       => ClearedForm']_vars

\* ---------------------------------------------------------------------- C24
\* C24 as stated: the metadata shown at READY is that of the analysis that
\* was started last: a resolved analyzeUrl that sets READY is the last of the
\* calls in flight (analyses holds them in the order they were started).
C24_LatestAnalysisWins ==
  [][\A i \in DOMAIN analyses :
       (analyses' = Remove(analyses, i) /\ status' = READY /\ metadata' # metadata)
         => metadata' = Some(Data(analyses[Len(analyses)]))]_vars

\* ---------------------------------------------------------------------- C25
\* C25 as stated: progress is an integer of 0..100.
C25_ProgressInRange == progress \in 0..100

\* ---------------------------------------------------------------------- C26
\* C26 as stated: whenever status is COMPLETED, progress is 100.
C26_CompletedAtFull == status = COMPLETED => progress = 100

====
